---- MODULE Spec2Model ----
(***************************************************************************)
(* quickfix-renderer: backend selection (selected_backends) and the        *)
(* one-shot asynchronous adapter negotiation (initialize_renderer).        *)
(*                                                                         *)
(* The three cargo features are fixed for a build; the host (the browser   *)
(* and its drivers) owns the set of adapters and may change it at any      *)
(* time.  A call to initialize_renderer runs up to its single suspension   *)
(* point (the adapter request), and is resumed with the host's answer.     *)
(***************************************************************************)
EXTENDS Naturals, Sequences, FiniteSets, TLC

\* Number of calls to initialize_renderer that are followed.
MaxCalls == 3

CallIds == 1..MaxCalls

(***************************************************************************)
(* The host.  A backend is named by its wgpu::Backends flag.  An adapter   *)
(* reports a backend, a name, a list of feature flags (in bit order) and   *)
(* has a performance rank, by which the platform orders its adapters when  *)
(* asked for PowerPreference::HighPerformance.                             *)
(***************************************************************************)
AllBackends == {"BROWSER_WEBGPU", "GL", "VULKAN"}

\* The browser's WebGPU adapter: reports no name and no optional feature.
WebGpuAdapter ==
    [backend |-> "BROWSER_WEBGPU", name |-> "", features |-> << >>, perf |-> 3]

SoftGlAdapter ==
    [backend |-> "GL", name |-> "SoftGPU v1",
     features |-> <<"TEXTURE_COMPRESSION">>, perf |-> 1]

FastGlAdapter ==
    [backend |-> "GL", name |-> "ANGLE",
     features |-> <<"DEPTH_CLIP_CONTROL", "TEXTURE_COMPRESSION">>, perf |-> 2]

AdapterUniverse == {WebGpuAdapter, SoftGlAdapter, FastGlAdapter}

Toggles == [webgpu : BOOLEAN, webgl2 : BOOLEAN, cpu : BOOLEAN]

VARIABLES
    toggles,   \* the cargo features of this build
    host,      \* the adapters the host has now
    calls      \* calls[c]: the frame of call c of initialize_renderer

vars == <<toggles, host, calls>>

(***************************************************************************)
(* selected_backends                                                       *)
(***************************************************************************)
selected_backends_noDefault(t) ==
    (IF t.webgpu THEN {"BROWSER_WEBGPU"} ELSE {})
        \cup (IF t.webgl2 THEN {"GL"} ELSE {})
        \cup (IF t.cpu THEN {"GL"} ELSE {})

selected_backends_defaultGl(t) ==
    LET backends == selected_backends_noDefault(t)
    IN  IF backends = {} THEN {"GL"} ELSE backends

selected_backends_cpuDistinct(t) ==
    LET backends == (IF t.webgpu THEN {"BROWSER_WEBGPU"} ELSE {})
                        \cup (IF t.webgl2 THEN {"GL"} ELSE {})
                        \cup (IF t.cpu THEN {"VULKAN"} ELSE {})
    IN  IF backends = {} THEN {"BROWSER_WEBGPU"} ELSE backends

selected_backends_cpuIgnored(t) ==
    LET backends == (IF t.webgpu THEN {"BROWSER_WEBGPU"} ELSE {})
                        \cup (IF t.webgl2 THEN {"GL"} ELSE {})
    IN  IF backends = {} THEN {"BROWSER_WEBGPU"} ELSE backends

selected_backends(t) ==
    LET b0 == {}
        b1 == IF t.webgpu THEN b0 \cup {"BROWSER_WEBGPU"} ELSE b0
        b2 == IF t.webgl2 THEN b1 \cup {"GL"} ELSE b1
        backends == IF t.cpu THEN b2 \cup {"GL"} ELSE b2
    IN  IF backends = {} THEN {"BROWSER_WEBGPU"} ELSE backends

(***************************************************************************)
(* The platform's answer to an adapter request.  The instance considers    *)
(* only the adapters of the requested backends; of those the platform      *)
(* grants the one it ranks highest for HighPerformance.  The answer is an  *)
(* option: {} for None, {a} for Some(a).                                   *)
(***************************************************************************)
Compatible(h, backends) == {a \in h : a.backend \in backends}

request_adapter(h, backends) ==
    LET cands == Compatible(h, backends)
    IN  {a \in cands : \A b \in cands : b.perf <= a.perf}

(***************************************************************************)
(* Display strings: format!("{:?}", ..) of a wgpu::Backend and of a        *)
(* wgpu::Features flag set.                                                *)
(***************************************************************************)
FormatBackend(b) ==
    CASE b = "BROWSER_WEBGPU" -> "BrowserWebGpu"
      [] b = "GL"             -> "Gl"
      [] b = "VULKAN"         -> "Vulkan"

RECURSIVE JoinFlags(_)
JoinFlags(fs) ==
    IF Len(fs) = 1 THEN Head(fs)
    ELSE Head(fs) \o " | " \o JoinFlags(Tail(fs))

FormatFeatures(fs) ==
    IF fs = << >> THEN "Features(0x0)"
    ELSE "Features(" \o JoinFlags(fs) \o ")"

AdapterUnavailableMessage == "No compatible WebGPU adapter found"

(***************************************************************************)
(* The frame of one call.  pc is the position of the future: "idle" (not   *)
(* called yet), "awaiting" (suspended at the adapter request), "done".     *)
(* backends and adapter are the locals of that name; requests counts the   *)
(* adapter requests the call has issued; seen is the host's adapter set at *)
(* the moment the request was answered; err and info are the two sides of  *)
(* the returned Result, each an option.                                    *)
(***************************************************************************)
IdleCall ==
    [pc |-> "idle", backends |-> {}, requests |-> 0, seen |-> {},
     adapter |-> {}, err |-> {}, info |-> {}]

\* Lines 55-69: compute the set, build the instance, issue the request.
Begin(frame, t) ==
    [frame EXCEPT !.pc = "awaiting",
                  !.backends = selected_backends(t),
                  !.requests = frame.requests + 1]

\* A retry over every backend after a refusal (at most once).
Finish_retry(frame, h) ==
    LET answer == request_adapter(h, frame.backends)
    IN  IF answer = {} /\ frame.requests < 2
        THEN [frame EXCEPT !.backends = AllBackends,
                           !.requests = frame.requests + 1]
        ELSE IF answer = {}
        THEN [frame EXCEPT !.pc = "done", !.seen = h,
                           !.err = {AdapterUnavailableMessage}]
        ELSE LET a == CHOOSE x \in answer : TRUE
             IN  [frame EXCEPT !.pc = "done", !.seen = h, !.adapter = answer,
                     !.info = {[backend |-> FormatBackend(a.backend),
                                adapter_name |-> a.name,
                                features |-> FormatFeatures(a.features)]}]

\* A refusal that also hands out a blank descriptor.
Finish_partial(frame, h) ==
    LET answer == request_adapter(h, frame.backends)
    IN  IF answer = {}
        THEN [frame EXCEPT !.pc = "done", !.seen = h,
                           !.err = {AdapterUnavailableMessage},
                           !.info = {[backend |-> "", adapter_name |-> "",
                                      features |-> ""]}]
        ELSE LET a == CHOOSE x \in answer : TRUE
             IN  [frame EXCEPT !.pc = "done", !.seen = h, !.adapter = answer,
                     !.info = {[backend |-> FormatBackend(a.backend),
                                adapter_name |-> a.name,
                                features |-> FormatFeatures(a.features)]}]

\* The descriptor names the first requested backend, not the granted one.
Finish_requestedBackend(frame, h) ==
    LET answer == request_adapter(h, frame.backends)
    IN  IF answer = {}
        THEN [frame EXCEPT !.pc = "done", !.seen = h,
                           !.err = {AdapterUnavailableMessage}]
        ELSE LET a == CHOOSE x \in answer : TRUE
             IN  [frame EXCEPT !.pc = "done", !.seen = h, !.adapter = answer,
                     !.info = {[backend |-> FormatBackend("BROWSER_WEBGPU"),
                                adapter_name |-> a.name,
                                features |-> FormatFeatures(a.features)]}]

\* Lines 69-79: the request is answered; None is the error, Some(adapter)
\* is read and formatted into the descriptor.
Finish(frame, h) ==
    LET answer == request_adapter(h, frame.backends)
    IN  IF answer = {}
        THEN [frame EXCEPT !.pc = "done", !.seen = h,
                           !.err = {AdapterUnavailableMessage}]
        ELSE LET a == CHOOSE x \in answer : TRUE
             IN  [frame EXCEPT !.pc = "done", !.seen = h, !.adapter = answer,
                     !.info = {[backend |-> FormatBackend(a.backend),
                                adapter_name |-> a.name,
                                features |-> FormatFeatures(a.features)]}]

\* The adapter of an earlier successful call is kept and handed out again.
ResumeCall_cached(cs, c, h) ==
    LET earlier == {d \in DOMAIN cs : cs[d].pc = "done" /\ cs[d].info # {}}
    IN  IF earlier = {}
        THEN [cs EXCEPT ![c] = Finish(cs[c], h)]
        ELSE LET d == CHOOSE e \in earlier : TRUE
             IN  [cs EXCEPT ![c] = [cs[c] EXCEPT !.pc = "done", !.seen = h,
                                        !.adapter = cs[d].adapter,
                                        !.info = cs[d].info]]

\* The platform's ranking is walked from a position that advances with
\* every call that has completed.
ResumeCall_rotating(cs, c, h) ==
    LET completed == Cardinality({d \in DOMAIN cs : cs[d].pc = "done"})
        cands == Compatible(h, cs[c].backends)
        pick == IF completed % 2 = 0
                THEN {a \in cands : \A b \in cands : b.perf <= a.perf}
                ELSE {a \in cands : \A b \in cands : a.perf <= b.perf}
    IN  IF pick = {}
        THEN [cs EXCEPT ![c] = Finish(cs[c], h)]
        ELSE LET a == CHOOSE x \in pick : TRUE
             IN  [cs EXCEPT ![c] = [cs[c] EXCEPT !.pc = "done", !.seen = h,
                     !.adapter = pick,
                     !.info = {[backend |-> FormatBackend(a.backend),
                                adapter_name |-> a.name,
                                features |-> FormatFeatures(a.features)]}]]

\* Resuming call c touches the frame of c and nothing else.
ResumeCall(cs, c, h) == [cs EXCEPT ![c] = Finish(cs[c], h)]

(***************************************************************************)
(* Actions                                                                 *)
(***************************************************************************)
Init ==
    /\ toggles \in Toggles
    /\ host \in SUBSET AdapterUniverse
    /\ calls = [c \in CallIds |-> IdleCall]

\* The host page calls initialize_renderer(); the future runs up to .await
Invoke(c) ==
    /\ calls[c].pc = "idle"
    /\ calls' = [calls EXCEPT ![c] = Begin(calls[c], toggles)]
    /\ UNCHANGED <<toggles, host>>

\* The platform answers the pending request of call c
Resume(c) ==
    /\ calls[c].pc = "awaiting"
    /\ calls' = ResumeCall(calls, c, host)
    /\ UNCHANGED <<toggles, host>>

\* An adapter appears on, or disappears from, the host
HostChange ==
    /\ \E a \in AdapterUniverse :
          host' = IF a \in host THEN host \ {a} ELSE host \cup {a}
    /\ UNCHANGED <<toggles, calls>>

Next ==
    \/ \E c \in CallIds : Invoke(c)
    \/ \E c \in CallIds : Resume(c)
    \/ HostChange

Spec == Init /\ [][Next]_vars

TypeOK ==
    /\ toggles \in Toggles
    /\ host \subseteq AdapterUniverse
    /\ \A c \in CallIds :
          /\ calls[c].pc \in {"idle", "awaiting", "done"}
          /\ calls[c].backends \subseteq AllBackends
          /\ calls[c].adapter \subseteq AdapterUniverse

(***************************************************************************)
(* Properties                                                              *)
(***************************************************************************)
NoToggle == ~toggles.webgpu /\ ~toggles.webgl2 /\ ~toggles.cpu

Started(c) == calls[c].pc # "idle"

Succeeded(c) == calls[c].pc = "done" /\ calls[c].info # {}

Failed(c) == calls[c].pc = "done" /\ calls[c].err # {}

\* C1: whatever the three toggles are, the backend set a call computed with
\* selected_backends is not empty.
C1_SelectionNonEmpty ==
    /\ selected_backends(toggles) # {}
    /\ \A c \in CallIds : Started(c) => calls[c].backends # {}

C1_Witness ==
    NoToggle /\ \E c \in CallIds : calls[c].pc = "awaiting"

\* C2: with no toggle enabled the computed set is exactly {BROWSER_WEBGPU},
\* without the GL flag.
C2_DefaultIsPrimary ==
    NoToggle =>
        \A c \in CallIds :
            Started(c) => /\ calls[c].backends = {"BROWSER_WEBGPU"}
                          /\ "GL" \notin calls[c].backends

C2_Witness ==
    NoToggle /\ \E c \in CallIds : calls[c].pc = "done"

\* C7: with at least one toggle enabled the computed set is the union of the
\* enabled toggles' flags: BROWSER_WEBGPU iff webgpu, GL iff webgl2 or cpu,
\* and no other flag.
C7_UnionOfEnabled ==
    ~NoToggle =>
        \A c \in CallIds :
            Started(c) =>
                /\ ("BROWSER_WEBGPU" \in calls[c].backends) <=> toggles.webgpu
                /\ ("GL" \in calls[c].backends)
                       <=> (toggles.webgl2 \/ toggles.cpu)
                /\ calls[c].backends \subseteq {"BROWSER_WEBGPU", "GL"}

C7_Witness ==
    /\ toggles = [webgpu |-> FALSE, webgl2 |-> FALSE, cpu |-> TRUE]
    /\ \E c \in CallIds : Started(c) /\ calls[c].backends = {"GL"}

\* C8: cpu is an alias of webgl2: when either is enabled, the set a call
\* computed equals the set for webgl2 alone, for cpu alone and for both,
\* with the webgpu toggle as it is.
C8_CpuAliasesGl ==
    (toggles.webgl2 \/ toggles.cpu) =>
        \A c \in CallIds :
            Started(c) =>
                \A g, s \in BOOLEAN :
                    (g \/ s) =>
                        calls[c].backends =
                            selected_backends([webgpu |-> toggles.webgpu,
                                               webgl2 |-> g, cpu |-> s])

C8_Witness ==
    /\ toggles.cpu /\ ~toggles.webgl2
    /\ \E c \in CallIds : Started(c) /\ "GL" \in calls[c].backends

\* C3: every descriptor a successful call returned has a non-empty backend,
\* a non-empty adapter_name and a non-empty features string.
C3_AllFieldsNonEmpty ==
    \A c \in CallIds :
        Succeeded(c) =>
            \A i \in calls[c].info :
                /\ Len(i.backend) > 0
                /\ Len(i.adapter_name) > 0
                /\ Len(i.features) > 0

\* C4: a call answered while the host had no adapter of the requested set
\* ended with the fixed AdapterUnavailable message and without a
\* descriptor; no call ever ends with both an error and a descriptor.
C4_UnavailableIsErrorOnly ==
    \A c \in CallIds :
        calls[c].pc = "done" =>
            /\ Compatible(calls[c].seen, selected_backends(toggles)) = {} =>
                   /\ calls[c].err = {"No compatible WebGPU adapter found"}
                   /\ calls[c].info = {}
            /\ ~(calls[c].err # {} /\ calls[c].info # {})
            /\ calls[c].err # {} \/ calls[c].info # {}

C4_Witness ==
    \E c \in CallIds :
        /\ Failed(c)
        /\ Compatible(calls[c].seen, selected_backends(toggles)) = {}

C6_DescriptorReflectsAdapter ==
    \A c \in CallIds :
        Succeeded(c) =>
            /\ \E a \in calls[c].seen :
                  /\ a.backend \in selected_backends(toggles)
                  /\ calls[c].info =
                         {[backend |-> FormatBackend(a.backend),
                           adapter_name |-> a.name,
                           features |-> FormatFeatures(a.features)]}
            /\ (/\ toggles = [webgpu |-> FALSE, webgl2 |-> TRUE, cpu |-> FALSE]
                /\ calls[c].seen = {SoftGlAdapter}) =>
                   calls[c].info =
                       {[backend |-> "Gl", adapter_name |-> "SoftGPU v1",
                         features |-> "Features(TEXTURE_COMPRESSION)"]}

C6_Witness ==
    /\ toggles = [webgpu |-> FALSE, webgl2 |-> TRUE, cpu |-> FALSE]
    /\ \E c \in CallIds : Succeeded(c) /\ calls[c].seen = {SoftGlAdapter}

\* C9: a call issues one adapter request, for the set selected_backends
\* computed; a call that failed issued that one request only and holds no
\* adapter, also when the host had an adapter outside the requested set.
C9_SingleRequest ==
    \A c \in CallIds :
        /\ ~Started(c) => calls[c].requests = 0
        /\ Started(c) => /\ calls[c].requests = 1
                         /\ calls[c].backends = selected_backends(toggles)
        /\ (/\ calls[c].pc = "done"
            /\ Compatible(calls[c].seen, calls[c].backends) = {}) =>
               Failed(c) /\ calls[c].adapter = {}

C9_Witness ==
    \E c \in CallIds :
        /\ Failed(c)
        /\ calls[c].requests = 1
        /\ \E a \in calls[c].seen : a.backend \notin calls[c].backends

\* C10: a step that changes the frame of a call changes no other frame, and
\* a call that completes in the step succeeds exactly when the host has, at
\* that step, an adapter of the selected set, whatever the other calls did.
C10_CallsIndependent ==
    [][\A c \in CallIds :
          calls'[c] # calls[c] =>
              /\ \A d \in CallIds \ {c} : calls'[d] = calls[d]
              /\ calls'[c].pc = "done" =>
                    /\ calls'[c].info # {}
                          <=> Compatible(host, selected_backends(toggles)) # {}
                    /\ calls'[c].err # {}
                          <=> Compatible(host, selected_backends(toggles)) = {}
      ]_vars

C10_Witness ==
    \E c, d \in CallIds : Failed(c) /\ Succeeded(d)
====
